---- MODULE Spec2Model ----
(***************************************************************************)
(* Model of the QA agent (src/qa_agent.py, src/prompts.py,                 *)
(* src/run_example.py): the module-level client, the three-stage pipeline  *)
(* of analyze_transcript with its catch-all fallback, and the heuristic    *)
(* classifier.                                                             *)
(*                                                                         *)
(* Texts are TLA+ strings.  Optional values are None (the empty tuple) or  *)
(* Some(v) (a one-element tuple).  The two non-ASCII characters of         *)
(* prompts.py are written with ASCII stand-ins: U+2013 (en dash) is        *)
(* EnDash and U+2019 is an apostrophe.                                     *)
(***************************************************************************)
EXTENDS Integers, Sequences, FiniteSets, TLC

VARIABLES
    api_key,        \* os.getenv("OPENAI_API_KEY") at import time (Optional[str])
    ctor,           \* what OpenAI(api_key=...) does at import time: "ok" | "OpenAIError"
    client,         \* the module-level client: None or Some("OpenAI")
    pc,             \* position of the current analyze_transcript invocation
    transcript,     \* argument of the current invocation
    call_id,        \* argument of the current invocation (Optional[str])
    model,          \* the model name after the None default is applied
    summary,        \* local of analyze_transcript (None while unassigned)
    classification, \* local of analyze_transcript (None while unassigned)
    improvements,   \* local of analyze_transcript (None while unassigned)
    result,         \* the dict handed to the caller (None before the return)
    requests,       \* requests sent to the remote service by this invocation
    responses,      \* what the remote service answered to each request
    history         \* how the earlier invocations of this process ended

vars == <<api_key, ctor, client, pc, transcript, call_id, model, summary,
          classification, improvements, result, requests, responses, history>>

----------------------------------------------------------------------------
(* Bounds *)

\* Invocations of analyze_transcript per process.
MaxCalls == 2

\* Vocabulary phrases per generated transcript of the heuristic classifier.
MaxWords == 2

----------------------------------------------------------------------------
(* Values *)

None == <<>>

Some(v) == <<v>>

EnDash == "~"

----------------------------------------------------------------------------
(* String functions of the Python runtime used by the code *)

UpperLetters == "ABCDEFGHIJKLMNOPQRSTUVWXYZ"

LowerLetters == "abcdefghijklmnopqrstuvwxyz"

\* str.lower() on one character.
LowerChar(c) ==
    IF \E i \in 1..Len(UpperLetters) : SubSeq(UpperLetters, i, i) = c
    THEN LET i == CHOOSE j \in 1..Len(UpperLetters) : SubSeq(UpperLetters, j, j) = c
         IN  SubSeq(LowerLetters, i, i)
    ELSE c

RECURSIVE LowerFrom(_, _)
\* The lowercased characters of s from position i on.
LowerFrom(s, i) ==
    IF i > Len(s) THEN ""
    ELSE LowerChar(SubSeq(s, i, i)) \o LowerFrom(s, i + 1)

\* str.lower()
Lower(s) == LowerFrom(s, 1)

\* Python's `word in text` on strings: substring search.
IsIn(word, text) ==
    \E i \in 1..(Len(text) - Len(word) + 1) :
        SubSeq(text, i, i + Len(word) - 1) = word

Whitespace == {" ", "\n", "\t", "\r"}

RECURSIVE LStrip(_)
LStrip(s) ==
    IF s # "" /\ SubSeq(s, 1, 1) \in Whitespace
    THEN LStrip(SubSeq(s, 2, Len(s)))
    ELSE s

RECURSIVE RStrip(_)
RStrip(s) ==
    IF s # "" /\ SubSeq(s, Len(s), Len(s)) \in Whitespace
    THEN RStrip(SubSeq(s, 1, Len(s) - 1))
    ELSE s

\* str.strip()
Strip(s) == RStrip(LStrip(s))

----------------------------------------------------------------------------
(* Heuristic classifier: _heuristic_analysis *)

intent_refund_first(text) ==
    IF IsIn("return", text) \/ IsIn("refund", text) THEN "Return / Refund"
    ELSE IF IsIn("order", text) THEN "Order status"
    ELSE IF IsIn("membership", text) THEN "Membership"
    ELSE IF IsIn("size", text) THEN "Product question"
    ELSE "General inquiry"

\* detect intent
intent(text) ==
    IF IsIn("order", text) THEN "Order status"
    ELSE IF IsIn("return", text) \/ IsIn("refund", text) THEN "Return / Refund"
    ELSE IF IsIn("membership", text) THEN "Membership"
    ELSE IF IsIn("size", text) THEN "Product question"
    ELSE "General inquiry"

escalated(text) ==
    \E word \in {"transfer", "connect", "escalate"} : IsIn(word, text)

successful_ungated(text) ==
    IsIn("thank you", text) \/ IsIn("great", text) \/ IsIn("resolved", text)

successful(text) ==
    /\ IsIn("thank you", text) \/ IsIn("great", text) \/ IsIn("resolved", text)
    /\ ~escalated(text)

outcome(text) ==
    IF ~escalated(text) /\ successful(text) THEN "Automated - Successful"
    ELSE IF ~escalated(text) THEN "Automated - Partially Successful"
    ELSE IF escalated(text) /\ successful(text) THEN "Escalated - Partially Successful"
    ELSE "Escalated - Unsuccessful"

heuristic_improvements ==
    << "Provide as much useful info as possible before escalation.",
       "Acknowledge customer frustration and explain escalation clearly." >>

\* The dict built from the lowercased text.
heuristic_dict(text, cid) ==
    [ call_id        |-> cid,
      summary        |-> "Heuristic analysis - intent: " \o intent(text)
                             \o ", outcome: " \o outcome(text) \o ".",
      classification |-> outcome(text),
      improvements   |-> heuristic_improvements ]

heuristic_default_call_id(t, cid) ==
    CHOOSE d \in {heuristic_dict(text, IF cid = None \/ cid = Some("")
                                       THEN Some("unknown") ELSE cid) :
                     text \in {Lower(t)}} : TRUE

\* text = transcript.lower() is computed once and the dict built from it.
_heuristic_analysis(t, cid) ==
    CHOOSE d \in {heuristic_dict(text, cid) : text \in {Lower(t)}} : TRUE

----------------------------------------------------------------------------
(* Prompt templates: prompts.py, rendered with str.format *)

SUMMARY_PROMPT(t) ==
    "You are a QA assistant. Summarize the following customer support call.\n"
    \o "Focus on:\n"
    \o "- The customer's intent\n"
    \o "- The AI agent's actions\n"
    \o "- Whether the issue was resolved or escalated\n"
    \o "\n"
    \o "Transcript:\n"
    \o t \o "\n"

CLASSIFICATION_PROMPT(s) ==
    "Based on this summary, classify the call outcome into ONE of the following:\n"
    \o "- Automated " \o EnDash \o " Successful\n"
    \o "- Automated " \o EnDash \o " Partially Successful\n"
    \o "- Escalated " \o EnDash \o " Partially Successful\n"
    \o "- Escalated " \o EnDash \o " Unsuccessful\n"
    \o "\n"
    \o "Summary:\n"
    \o s \o "\n"
    \o "\n"
    \o "Answer with ONLY the classification text.\n"

IMPROVEMENT_PROMPT(s, c) ==
    "You are a QA reviewer. Based on the call summary and classification, suggest\n"
    \o "2" \o EnDash \o "3 concrete improvements for the AI agent's behavior.\n"
    \o "\n"
    \o "Summary:\n"
    \o s \o "\n"
    \o "\n"
    \o "Classification:\n"
    \o c \o "\n"
    \o "\n"
    \o "Write clear bullet points.\n"

----------------------------------------------------------------------------
(* The module-level client: _get_client, run once at import *)

ApiKeys == {None, Some(""), Some("sk-test")}

CtorOutcomes == {"ok", "OpenAIError"}

_get_client_only_none(key, construction) ==
    IF key = None THEN None
    ELSE IF construction = "OpenAIError" THEN None
    ELSE Some("OpenAI")

\* `not api_key` holds for an unset variable and for an empty one.
_get_client(key, construction) ==
    IF key = None \/ key = Some("") THEN None
    ELSE IF construction = "OpenAIError" THEN None
    ELSE Some("OpenAI")

----------------------------------------------------------------------------
(* The reasoning client: _call_openai *)

\* What the remote service does with one request: the call raises, the
\* response has no choices, the message has no content, or it has text.
Reply(kind, content) == [kind |-> kind, content |-> content]

Replies(texts) ==
    {Reply("raise", ""), Reply("no_choices", ""), Reply("null_content", "")}
        \cup {Reply("text", t) : t \in texts}

\* The outcome of one _call_openai(prompt, model) when the remote service
\* would answer `reply`: the exception raised (None if none), the value
\* returned, and the request sent with its answer (none when the client is
\* missing).
_call_openai(c, prompt, m, reply) ==
    IF c = None
    THEN [raised |-> Some("RuntimeError"), value |-> "", sent |-> <<>>, got |-> <<>>]
    ELSE LET request == [model |-> m, prompt |-> prompt, temperature |-> 0]
             exc == CASE reply.kind = "raise"        -> Some("OpenAIError")
                      [] reply.kind = "no_choices"   -> Some("IndexError")
                      [] reply.kind = "null_content" -> Some("AttributeError")
                      [] OTHER                       -> None
         IN  [raised |-> exc,
              value  |-> IF exc = None THEN Strip(reply.content) ELSE "",
              sent   |-> <<request>>,
              got    |-> <<reply>>]

----------------------------------------------------------------------------
(* The orchestrator: analyze_transcript, one action per blocking step *)

\* Inputs the caller passes.
SampleTranscripts ==
    { "Thank you, issue resolved.",
      "I need help with my order.",
      "Let me transfer you. Thank you for your patience." }

CallIds == {None, Some(""), Some("call1")}

Models == {None, Some("gpt-4o")}

\* Raw message contents the remote service may answer with at each stage.
SummaryTexts ==
    { "  The customer asked about an order; the agent resolved it.\n",
      "The agent escalated the refund request." }

ClassificationTexts ==
    { "Automated - Successful\n",
      "Escalated " \o EnDash \o " Unsuccessful",
      "The call went mostly well." }

ImprovementTexts ==
    { "- Confirm the order number earlier.\n- Explain the escalation.\n" }

\* The exception classes that occur, all of them subclasses of Exception.
ExceptionSubclasses == {"RuntimeError", "OpenAIError", "IndexError", "AttributeError"}

CaughtOpenAIErrorOnly(exc) == exc = Some("OpenAIError")

\* `except Exception`
Caught(exc) == exc[1] \in ExceptionSubclasses

FallbackKeepingSummary(exc) ==
    /\ pc' = "FallbackDone"
    /\ result' = IF pc = "Summarizing"
                 THEN _heuristic_analysis(transcript, call_id)
                 ELSE [_heuristic_analysis(transcript, call_id) EXCEPT !.summary = summary]
    /\ client' = client

FallbackDisablingClient(exc) ==
    /\ pc' = "FallbackDone"
    /\ result' = _heuristic_analysis(transcript, call_id)
    /\ client' = None

\* The except clause: the heuristic result is returned for a caught
\* exception; any other exception leaves analyze_transcript.
Fallback(exc) ==
    /\ IF Caught(exc)
       THEN /\ pc' = "FallbackDone"
            /\ result' = _heuristic_analysis(transcript, call_id)
       ELSE /\ pc' = "Raised"
            /\ result' = None
    /\ client' = client

Terminal == {"Done", "FallbackDone"}

\* The caller invokes analyze_transcript; `model is None` selects the default.
StartCall ==
    /\ pc \in {"Idle"} \cup Terminal
    /\ Len(history) + (IF pc = "Idle" THEN 0 ELSE 1) < MaxCalls
    /\ \E t \in SampleTranscripts, cid \in CallIds, m \in Models :
        /\ transcript' = t
        /\ call_id' = cid
        /\ model' = IF m = None THEN "gpt-4o-mini" ELSE m[1]
    /\ history' = IF pc = "Idle" THEN history ELSE Append(history, pc)
    /\ pc' = "Summarizing"
    /\ summary' = None
    /\ classification' = None
    /\ improvements' = None
    /\ result' = None
    /\ requests' = <<>>
    /\ responses' = <<>>
    /\ UNCHANGED <<api_key, ctor, client>>

\* Step 1: summarise
Summarize ==
    /\ pc = "Summarizing"
    /\ \E reply \in Replies(SummaryTexts) :
        LET r == _call_openai(client, SUMMARY_PROMPT(transcript), model, reply)
        IN  /\ requests' = requests \o r.sent
            /\ responses' = responses \o r.got
            /\ IF r.raised = None
               THEN /\ summary' = r.value
                    /\ pc' = "Classifying"
                    /\ UNCHANGED <<result, client>>
               ELSE /\ Fallback(r.raised)
                    /\ UNCHANGED summary
    /\ UNCHANGED <<api_key, ctor, transcript, call_id, model, classification,
                   improvements, history>>

ClassifyTranscript ==
    /\ pc = "Classifying"
    /\ \E reply \in Replies(ClassificationTexts) :
        LET r == _call_openai(client, CLASSIFICATION_PROMPT(transcript), model, reply)
        IN  /\ requests' = requests \o r.sent
            /\ responses' = responses \o r.got
            /\ IF r.raised = None
               THEN /\ classification' = r.value
                    /\ pc' = "Suggesting"
                    /\ UNCHANGED <<result, client>>
               ELSE /\ Fallback(r.raised)
                    /\ UNCHANGED classification
    /\ UNCHANGED <<api_key, ctor, transcript, call_id, model, summary,
                   improvements, history>>

\* Step 2: classify
Classify ==
    /\ pc = "Classifying"
    /\ \E reply \in Replies(ClassificationTexts) :
        LET r == _call_openai(client, CLASSIFICATION_PROMPT(summary), model, reply)
        IN  /\ requests' = requests \o r.sent
            /\ responses' = responses \o r.got
            /\ IF r.raised = None
               THEN /\ classification' = r.value
                    /\ pc' = "Suggesting"
                    /\ UNCHANGED <<result, client>>
               ELSE /\ Fallback(r.raised)
                    /\ UNCHANGED classification
    /\ UNCHANGED <<api_key, ctor, transcript, call_id, model, summary,
                   improvements, history>>

\* Step 3: suggest improvements, then build and return the CallAnalysis dict
Suggest ==
    /\ pc = "Suggesting"
    /\ \E reply \in Replies(ImprovementTexts) :
        LET r == _call_openai(client, IMPROVEMENT_PROMPT(summary, classification),
                              model, reply)
        IN  /\ requests' = requests \o r.sent
            /\ responses' = responses \o r.got
            /\ IF r.raised = None
               THEN /\ improvements' = r.value
                    /\ result' = [ call_id        |-> call_id,
                                   summary        |-> summary,
                                   classification |-> classification,
                                   improvements   |-> r.value ]
                    /\ pc' = "Done"
                    /\ UNCHANGED client
               ELSE /\ Fallback(r.raised)
                    /\ UNCHANGED improvements
    /\ UNCHANGED <<api_key, ctor, transcript, call_id, model, summary,
                   classification, history>>

\* The process after `import qa_agent`: the client is built, nothing runs.
Init ==
    /\ api_key \in ApiKeys
    /\ ctor \in CtorOutcomes
    /\ client = _get_client(api_key, ctor)
    /\ pc = "Idle"
    /\ transcript = None
    /\ call_id = None
    /\ model = None
    /\ summary = None
    /\ classification = None
    /\ improvements = None
    /\ result = None
    /\ requests = <<>>
    /\ responses = <<>>
    /\ history = <<>>

Next == StartCall \/ Summarize \/ Classify \/ Suggest

Spec == Init /\ [][Next]_vars

\* analyze_transcript is synchronous: once invoked, each of its steps runs.
FairSpec ==
    Spec /\ WF_vars(Summarize) /\ WF_vars(Classify) /\ WF_vars(Suggest)

----------------------------------------------------------------------------
(* The heuristic classifier on its own: inputs drawn, the function applied *)

Vocabulary ==
    { "Order", "return", "Refund", "membership", "size", "transfer",
      "reconnect", "ESCALATE", "Thank you", "great", "resolved", "hello" }

RECURSIVE TranscriptsOf(_)
\* The texts of at most n vocabulary phrases, separated by single spaces.
TranscriptsOf(n) ==
    IF n = 0 THEN {""}
    ELSE LET shorter == TranscriptsOf(n - 1)
         IN  shorter \cup {IF t = "" THEN w ELSE t \o " " \o w :
                               t \in shorter, w \in Vocabulary}

Transcripts ==
    SampleTranscripts \cup {"I will connect you to a specialist."}
        \cup TranscriptsOf(MaxWords)

HeuristicInit ==
    /\ api_key = None
    /\ ctor = "ok"
    /\ client = _get_client(api_key, ctor)
    /\ pc = "HeuristicStart"
    /\ transcript \in Transcripts
    /\ call_id \in CallIds
    /\ model = None
    /\ summary = None
    /\ classification = None
    /\ improvements = None
    /\ result = None
    /\ requests = <<>>
    /\ responses = <<>>
    /\ history = <<>>

HeuristicApply ==
    /\ pc = "HeuristicStart"
    /\ result' = _heuristic_analysis(transcript, call_id)
    /\ pc' = "HeuristicDone"
    /\ UNCHANGED <<api_key, ctor, client, transcript, call_id, model, summary,
                   classification, improvements, requests, responses, history>>

HeuristicNext == HeuristicApply

HeuristicSpec == HeuristicInit /\ [][HeuristicNext]_vars

----------------------------------------------------------------------------
(* Properties *)

Outcomes ==
    { "Automated - Successful", "Automated - Partially Successful",
      "Escalated - Partially Successful", "Escalated - Unsuccessful" }

ResultKeys == {"call_id", "summary", "classification", "improvements"}

Running == {"Summarizing", "Classifying", "Suggesting"}

\* The credential was absent (unset or empty) or the client could not be built.
HandleUnavailable ==
    api_key = None \/ api_key = Some("") \/ ctor = "OpenAIError"

HasEscalationWord ==
    \E w \in {"transfer", "connect", "escalate"} : IsIn(w, Lower(transcript))

HasSuccessWord ==
    \E w \in {"thank you", "great", "resolved"} : IsIn(w, Lower(transcript))

\* The text a stage returned: the trimmed content of its response.
StageText(i) == Strip(responses[i].content)

AllText(n) == \A i \in 1..n : responses[i].kind = "text"

\* C1: when the reasoning client raises at the summarize, classify or suggest
\* stage, the record returned is exactly _heuristic_analysis(transcript,
\* call_id); nothing an earlier successful stage produced is in it.
C1_FallbackIsHeuristic ==
    pc = "FallbackDone" => result = _heuristic_analysis(transcript, call_id)

\* C1 witness: the suggest stage failed after two successful stages.
C1_Witness ==
    /\ pc = "FallbackDone"
    /\ Len(responses) = 3
    /\ responses[1].kind = "text"
    /\ responses[2].kind = "text"
    /\ responses[3].kind = "raise"
    /\ result.summary # StageText(1)

\* C2: every invocation reaches Done or FallbackDone and there hands a record
\* with call_id, summary, classification and improvements to the caller; no
\* exception leaves analyze_transcript, whatever stage failed and why.
C2_AlwaysARecord ==
    /\ [](pc # "Raised")
    /\ [](pc \in Terminal => DOMAIN result = ResultKeys)
    /\ (pc \in Running) ~> (pc \in Terminal)

\* C2 witness: the classify stage failed on a response without content and
\* the invocation ended with a record.
C2_Witness ==
    /\ pc = "FallbackDone"
    /\ Len(responses) = 2
    /\ responses[2].kind = "null_content"
    /\ DOMAIN result = ResultKeys

\* C3: the classification of every returned record is one of the four outcome
\* strings, on the external path as on the heuristic path.
C3_ClassificationInOutcomes ==
    pc \in Terminal => result.classification \in Outcomes

\* C4: a transcript with an escalation word and a success word is classified
\* "Escalated - Partially Successful" by the heuristic classifier.
C4_EscalatedWithSuccessWord ==
    (pc = "HeuristicDone" /\ HasEscalationWord /\ HasSuccessWord)
        => result.classification = "Escalated - Partially Successful"

\* C5: for a transcript with an escalation word, successful is false even when
\* a success word is present, and the classification is
\* "Escalated - Unsuccessful".
C5_EscalationGating ==
    (pc = "HeuristicDone" /\ HasEscalationWord)
        => /\ ~successful(Lower(transcript))
           /\ result.classification = "Escalated - Unsuccessful"

\* C5 witness: an escalation word together with a success word.
C5_Witness ==
    /\ pc = "HeuristicDone"
    /\ HasEscalationWord
    /\ HasSuccessWord
    /\ result.classification = "Escalated - Unsuccessful"

\* C6: the call_id of the returned record is the call_id argument, on the
\* external path and on the fallback path, None and "" included.
C6_CallIdRoundTrip ==
    pc \in Terminal => result.call_id = call_id

\* C6 witness: a fallback after a remote failure with call_id None, in a
\* process whose earlier invocation ended on the external path.
C6_Witness ==
    /\ pc = "FallbackDone"
    /\ call_id = None
    /\ requests # <<>>
    /\ history = <<"Done">>
    /\ result.call_id = None

\* C7: the client never changes after import; when the credential was absent
\* or the construction failed, every invocation fails at the first stage with
\* no request sent and returns the heuristic result.
C7_DisabledForProcess ==
    /\ [][client' = client]_vars
    /\ [](HandleUnavailable =>
            /\ client = None
            /\ requests = <<>>
            /\ pc \notin {"Classifying", "Suggesting", "Done"}
            /\ (pc = "FallbackDone" =>
                    result = _heuristic_analysis(transcript, call_id)))

\* C7 witness: a second invocation of a process whose construction failed.
C7_Witness ==
    /\ api_key = Some("sk-test")
    /\ ctor = "OpenAIError"
    /\ pc = "FallbackDone"
    /\ history = <<"FallbackDone">>
    /\ requests = <<>>

IntentPriority ==
    << [keywords |-> {"order"},            label |-> "Order status"],
       [keywords |-> {"return", "refund"}, label |-> "Return / Refund"],
       [keywords |-> {"membership"},       label |-> "Membership"],
       [keywords |-> {"size"},             label |-> "Product question"] >>

MatchingRanks ==
    {i \in DOMAIN IntentPriority :
        \E k \in IntentPriority[i].keywords : IsIn(k, Lower(transcript))}

\* The label of the highest-priority keyword present, else general inquiry.
ExpectedIntent ==
    IF MatchingRanks = {} THEN "General inquiry"
    ELSE IntentPriority[CHOOSE i \in MatchingRanks :
                            \A j \in MatchingRanks : i <= j].label

\* C8: the intent in the heuristic summary is that of the highest-priority
\* keyword present, in the order "order", "return"/"refund", "membership",
\* "size", else general inquiry.
C8_IntentPriority ==
    pc = "HeuristicDone" =>
        result.summary = "Heuristic analysis - intent: " \o ExpectedIntent
                             \o ", outcome: " \o result.classification \o "."

\* C8 witness: "order" together with "refund" gives Order status.
C8_Witness ==
    /\ pc = "HeuristicDone"
    /\ IsIn("order", Lower(transcript))
    /\ IsIn("refund", Lower(transcript))
    /\ ExpectedIntent = "Order status"

\* The prompt stage i is called with.
ExpectedPrompt(i) ==
    CASE i = 1 -> SUMMARY_PROMPT(transcript)
      [] i = 2 -> CLASSIFICATION_PROMPT(StageText(1))
      [] OTHER -> IMPROVEMENT_PROMPT(StageText(1), StageText(2))

\* C9: within one invocation the client is called in the order summarize,
\* classify, suggest, each at most once and only after the earlier stages
\* returned; nothing is called after a failing stage; and on Done the record
\* holds the outputs of stages 1, 2 and 3, each prompt built from the
\* earlier outputs.
C9_StagesInOrder ==
    /\ Len(requests) <= 3
    /\ Len(responses) = Len(requests)
    /\ \A i \in 1..Len(requests) :
        /\ requests[i].prompt = ExpectedPrompt(i)
        /\ i < Len(requests) => responses[i].kind = "text"
    /\ pc = "Summarizing" => Len(requests) = 0
    /\ pc = "Classifying" => Len(requests) = 1 /\ AllText(1)
    /\ pc = "Suggesting" => Len(requests) = 2 /\ AllText(2)
    /\ pc = "FallbackDone" =>
        \/ requests = <<>>
        \/ responses[Len(responses)].kind # "text"
    /\ pc = "Done" =>
        /\ Len(requests) = 3
        /\ AllText(3)
        /\ result.summary = StageText(1)
        /\ result.classification = StageText(2)
        /\ result.improvements = StageText(3)

\* C9 witness: the external path ran to Done.
C9_Witness ==
    /\ pc = "Done"
    /\ Len(requests) = 3
    /\ responses[1].content # StageText(1)

\* The record an invocation returns, from its own arguments and the
\* responses it received.
ExpectedResult ==
    IF Len(responses) = 3 /\ AllText(3)
    THEN [ call_id        |-> call_id,
           summary        |-> StageText(1),
           classification |-> StageText(2),
           improvements   |-> StageText(3) ]
    ELSE _heuristic_analysis(transcript, call_id)

\* C10: with a client present, every invocation, whatever the earlier ones
\* ended in, starts by sending the summarize request for its own transcript
\* and model, and its result is determined by its own arguments and the
\* responses it received.
C10_CallsIndependent ==
    (~HandleUnavailable /\ pc \in Terminal) =>
        /\ Len(requests) >= 1
        /\ requests[1] = [ model       |-> model,
                           prompt      |-> SUMMARY_PROMPT(transcript),
                           temperature |-> 0 ]
        /\ result = ExpectedResult

\* C10 witness: an invocation reaches Done after an earlier one fell back.
C10_Witness ==
    /\ ~HandleUnavailable
    /\ pc = "Done"
    /\ history = <<"FallbackDone">>

====
